---- MODULE Spec2Model ----
(***************************************************************************)
(* Model of src/dashboard/app.py: the PyShiny Express dashboard's data     *)
(* engine.  A session executes the module body (the deque of line 35 and   *)
(* the reactive calc of lines 42-70); the timer armed by                   *)
(* reactive.invalidate_later invalidates the calc; the render functions    *)
(* (lines 100-263) read the calc, which re-executes only when invalidated. *)
(*                                                                         *)
(* Python objects that are shared by reference are modelled by identity:   *)
(* a deque is named by the session whose module body constructed it and    *)
(* its contents live in the heap `deques`; a DataFrame is named by df_id.  *)
(* Temperatures and humidities are in tenths (round(x, 1)).                *)
(***************************************************************************)
EXTENDS Integers, Sequences, FiniteSets, TLC

VARIABLES
    deque_size,             \* value of DEQUE_SIZE the module body runs with
    update_interval,        \* value of UPDATE_INTERVAL_SECS the calc runs with
    session_state,          \* session -> "none" | "running" | "ValueError"
    reactive_value_wrapper, \* session -> identity of the deque held by its reactive.value
    deques,                 \* heap: deque identity -> contents, oldest first
    calc,                   \* session -> the reactive.calc's memo: valid flag, run count, cached tuple
    timer,                  \* session -> the pending invalidate_later task
    now,                    \* wall clock, whole seconds
    appended,               \* history: session -> every reading its calc generated, in order
    ticks,                  \* history: session -> number of timer firings
    last_return,            \* the latest call of the calc by a render function: what it returned
    held,                   \* a snapshot some caller kept, with a copy of the deque contents when it was returned
    tick_budget             \* bound of the model: timer firings explored in a behaviour

vars == <<deque_size, update_interval, session_state, reactive_value_wrapper, deques,
          calc, timer, now, appended, ticks, last_return, held, tick_budget>>

\* ---------------------------------------------------------------- constants

\* app.py:31
UPDATE_INTERVAL_SECS == 10
\* app.py:33
DEQUE_SIZE == 5

\* Bounds of the model.
MaxTicks == 7
MaxFairTicks == 4
MaxSessionTicks == 2
MaxConfigTicks == 1

Sessions == {"s1", "s2"}

\* Sample draws <<temperature, humidity>> of round(random.uniform(-30, -25), 1) and
\* round(random.uniform(70, 95), 1), in tenths: the two ends of the ranges.
Draws == {<<-300, 700>>, <<-250, 950>>}

\* Values the two module constants could be edited to (the configuration surface).
ConfigSizes == {-1, 0, 1, DEQUE_SIZE}
ConfigIntervals == {-10, 0, UPDATE_INTERVAL_SECS}

Consumers == {"render_temperature", "render_humidity", "render_timestamp",
              "render_data_table", "render_temperature_chart",
              "render_humidity_chart", "render_temperature_distribution"}

\* ------------------------------------------------------------------ helpers

Max(a, b) == IF a >= b THEN a ELSE b
Min(a, b) == IF a <= b THEN a ELSE b

RECURSIVE SumTicks(_, _)
SumTicks(f, S) ==
    IF S = {} THEN 0
    ELSE LET x == CHOOSE y \in S : TRUE IN f[x] + SumTicks(f, S \ {x})

TotalTicks == SumTicks(ticks, Sessions)

\* The last n elements of a sequence (all of it when it is shorter).
LastN(seq, n) ==
    IF n <= 0 THEN <<>>
    ELSE SubSeq(seq, Max(1, Len(seq) - n + 1), Len(seq))

\* ------------------------------------------------------------ python values

None == [none |-> TRUE]

\* datetime.now().strftime("%Y-%m-%d %H:%M:%S"): a string of second precision.
strftime(t) == [type |-> "str", secs |-> t]

\* pd.to_datetime on a column: every cell becomes a datetime64 of the same instant.
to_datetime(cell) == [type |-> "datetime64", secs |-> cell.secs]

\* app.py:57-61
new_dictionary_entry(t, h, clock) ==
    [temperature |-> t, humidity |-> h, timestamp |-> strftime(clock)]

\* Mutant of append: a deque without maxlen, nothing is ever evicted.
append_unbounded(dq, x, n) == Append(dq, x)

\* collections.deque.append on a deque(maxlen=n): with n = 0 the element is dropped,
\* at length n the head is discarded.
append(dq, x, n) ==
    IF n = 0 THEN dq
    ELSE IF Len(dq) >= n THEN Append(Tail(dq), x)
    ELSE Append(dq, x)

\* Mutant of DataFrame: the rows newest first.
DataFrame_newest_first(dq) ==
    [i \in 1..Len(dq) |->
        [temperature |-> dq[Len(dq) + 1 - i].temperature,
         humidity    |-> dq[Len(dq) + 1 - i].humidity,
         timestamp   |-> dq[Len(dq) + 1 - i].timestamp]]

\* pd.DataFrame(deque_snapshot): a new frame, one row per dict, in order.
DataFrame(dq) ==
    [i \in 1..Len(dq) |->
        [temperature |-> dq[i].temperature,
         humidity    |-> dq[i].humidity,
         timestamp   |-> dq[i].timestamp]]

\* df["timestamp"] = pd.to_datetime(df["timestamp"]): assignment into the frame itself.
set_timestamp_column(df) ==
    [i \in 1..Len(df) |-> [df[i] EXCEPT !.timestamp = to_datetime(df[i].timestamp)]]

\* The memo of a reactive.calc that has never run.
NoValue == [deque_snapshot |-> None, df |-> <<>>, df_id |-> 0, latest |-> None]
NoTimer == [armed |-> FALSE, deadline |-> 0]

\* ---------------------------------------------------------------- the calc

\* Mutant of invalidate_later: the timer is not armed.
invalidate_later_missing(delay) == NoTimer

\* reactive.invalidate_later(delay), app.py:51: a task that sleeps `delay` seconds from
\* now and then invalidates the calling calc.
invalidate_later(delay) == [armed |-> TRUE, deadline |-> now + delay]

\* Mutant of reactive_calc_combined: latest is read from the deque before the append.
reactive_calc_latest_before_append(s, t, h) ==
    LET entry == new_dictionary_entry(t, h, now)
        d     == reactive_value_wrapper[s]
        heap  == [deques EXCEPT ![d] = append(deques[d], entry, deque_size)]
    IN  [deques   |-> heap,
         timer    |-> invalidate_later(update_interval),
         appended |-> Append(appended[s], entry),
         calc     |-> [valid |-> TRUE,
                       runs  |-> calc[s].runs + 1,
                       value |-> [deque_snapshot |-> d,
                                  df     |-> DataFrame(heap[d]),
                                  df_id  |-> calc[s].runs + 1,
                                  latest |-> IF deques[d] = <<>> THEN None
                                             ELSE deques[d][Len(deques[d])]]]]

\* app.py:43-70, one execution of the calc body for session s at time `now`, with
\* the two random draws t and h.  Returns the state it leaves behind.
reactive_calc_combined(s, t, h) ==
    LET entry == new_dictionary_entry(t, h, now)
        d     == reactive_value_wrapper[s]
        heap  == [deques EXCEPT ![d] = append(deques[d], entry, deque_size)]
        deque_snapshot == d
        df    == DataFrame(heap[deque_snapshot])
    IN  [deques   |-> heap,
         timer    |-> invalidate_later(update_interval),
         appended |-> Append(appended[s], entry),
         calc     |-> [valid |-> TRUE,
                       runs  |-> calc[s].runs + 1,
                       value |-> [deque_snapshot |-> deque_snapshot,
                                  df     |-> df,
                                  df_id  |-> calc[s].runs + 1,
                                  latest |-> entry]]]

\* Mutant of calc_get: no memo, every call runs the body.
calc_get_uncached(s, t, h) == reactive_calc_combined(s, t, h)

\* Calling a @reactive.calc: the body runs only when the memo is invalid.
calc_get(s, t, h) ==
    IF calc[s].valid
    THEN [deques |-> deques, timer |-> timer[s], appended |-> appended[s], calc |-> calc[s]]
    ELSE reactive_calc_combined(s, t, h)

\* What a caller receives: the cached tuple (deque, df, latest), the two mutable
\* objects by identity.
Returned(v) == [deque_snapshot |-> v.deque_snapshot, df_id |-> v.df_id, latest |-> v.latest]

\* ---------------------------------------------------------- render functions

\* app.py:159-160 and 201-202: a trend chart, when the frame is not empty, assigns the
\* converted timestamp column into the frame it was handed, which is the memo's frame.
\* The other render functions only read.
FrameAfter(c, df) ==
    IF c \in {"render_temperature_chart", "render_humidity_chart"} /\ df # <<>>
    THEN set_timestamp_column(df)
    ELSE df

\* The random stream is consumed only when the calc body runs.
DrawsFor(s) == IF calc[s].valid THEN {CHOOSE d \in Draws : TRUE} ELSE Draws

\* One run of render function c in session s.  A caller may keep the tuple it is
\* handed; `held` follows one that was returned by the call that ran the body.
Render(s, c) ==
    /\ session_state[s] = "running"
    /\ \E draw \in DrawsFor(s) :
        LET st == calc_get(s, draw[1], draw[2])
            v  == st.calc.value
            kept == [session |-> s, value |-> Returned(v),
                     contents |-> st.deques[v.deque_snapshot]]
        IN  /\ deques' = st.deques
            /\ timer' = [timer EXCEPT ![s] = st.timer]
            /\ appended' = [appended EXCEPT ![s] = st.appended]
            /\ calc' = [calc EXCEPT ![s] = [st.calc EXCEPT !.value.df = FrameAfter(c, v.df)]]
            /\ last_return' = [session |-> s, value |-> Returned(v),
                               ran |-> ~calc[s].valid, ticks |-> ticks[s]]
            /\ held' \in IF calc[s].valid THEN {held} ELSE {held, kept}
    /\ UNCHANGED <<deque_size, update_interval, session_state, reactive_value_wrapper,
                   now, ticks, tick_budget>>

render_temperature(s) == Render(s, "render_temperature")
render_humidity(s) == Render(s, "render_humidity")
render_timestamp(s) == Render(s, "render_timestamp")
render_data_table(s) == Render(s, "render_data_table")
render_temperature_chart(s) == Render(s, "render_temperature_chart")
render_humidity_chart(s) == Render(s, "render_humidity_chart")
render_temperature_distribution(s) == Render(s, "render_temperature_distribution")

\* ------------------------------------------------------------------ the timer

\* reactive.invalidate_later(UPDATE_INTERVAL_SECS), app.py:51: the task sleeps to the
\* deadline and then invalidates the calc that armed it.
invalidate_later_fires(s) ==
    /\ session_state[s] = "running"
    /\ timer[s].armed
    /\ TotalTicks < tick_budget
    /\ now' = Max(now, timer[s].deadline)
    /\ timer' = [timer EXCEPT ![s] = NoTimer]
    /\ calc' = [calc EXCEPT ![s].valid = FALSE]
    /\ ticks' = [ticks EXCEPT ![s] = @ + 1]
    /\ UNCHANGED <<deque_size, update_interval, session_state, reactive_value_wrapper,
                   deques, appended, last_return, held, tick_budget>>

\* ---------------------------------------------------------------- sessions

\* Mutant of module_body: one deque for the process, shared by every session.
module_body_process_wide(s) ==
    IF deque_size < 0
    THEN [state |-> "ValueError", wrapper |-> reactive_value_wrapper[s], deques |-> deques]
    ELSE [state |-> "running", wrapper |-> "s1", deques |-> deques]

\* app.py:35, executed with the rest of the module body once per session (Shiny
\* Express runs the app file as the session's server function):
\* deque(maxlen=DEQUE_SIZE) raises ValueError for a negative maxlen and otherwise
\* constructs a new, empty deque.
module_body(s) ==
    IF deque_size < 0
    THEN [state |-> "ValueError", wrapper |-> reactive_value_wrapper[s], deques |-> deques]
    ELSE [state |-> "running", wrapper |-> s, deques |-> [deques EXCEPT ![s] = <<>>]]

session_start(s) ==
    /\ session_state[s] = "none"
    /\ LET m == module_body(s)
       IN  /\ session_state' = [session_state EXCEPT ![s] = m.state]
           /\ reactive_value_wrapper' = [reactive_value_wrapper EXCEPT ![s] = m.wrapper]
           /\ deques' = m.deques
    /\ UNCHANGED <<deque_size, update_interval, calc, timer, now, appended, ticks,
                   last_return, held, tick_budget>>

\* ------------------------------------------------------------ specifications

NoCalc == [valid |-> FALSE, runs |-> 0, value |-> NoValue]

InitCommon ==
    /\ reactive_value_wrapper = [s \in Sessions |-> "s1"]
    /\ deques = [s \in Sessions |-> <<>>]
    /\ calc = [s \in Sessions |-> NoCalc]
    /\ timer = [s \in Sessions |-> NoTimer]
    /\ now = 0
    /\ appended = [s \in Sessions |-> <<>>]
    /\ ticks = [s \in Sessions |-> 0]
    /\ last_return = None
    /\ held = None

\* One session, its module body executed with the constants as written.
Init ==
    /\ deque_size = DEQUE_SIZE
    /\ update_interval = UPDATE_INTERVAL_SECS
    /\ session_state = [s \in Sessions |-> IF s = "s1" THEN "running" ELSE "none"]
    /\ tick_budget = MaxTicks
    /\ InitCommon

Next ==
    \E s \in Sessions :
        \/ invalidate_later_fires(s)
        \/ render_temperature(s)
        \/ render_humidity(s)
        \/ render_timestamp(s)
        \/ render_data_table(s)
        \/ render_temperature_chart(s)
        \/ render_humidity_chart(s)
        \/ render_temperature_distribution(s)

Spec == Init /\ [][Next]_vars

\* The timer task and the outputs' re-execution are scheduled by the event loop:
\* an armed timer fires, and an output whose calc was invalidated is rendered again.
Renders == \E s \in Sessions, c \in Consumers : Render(s, c)
TimerFires == \E s \in Sessions : invalidate_later_fires(s)

InitFair ==
    /\ deque_size = DEQUE_SIZE
    /\ update_interval = UPDATE_INTERVAL_SECS
    /\ session_state = [s \in Sessions |-> IF s = "s1" THEN "running" ELSE "none"]
    /\ tick_budget = MaxFairTicks
    /\ InitCommon

FairSpec == InitFair /\ [][Next]_vars /\ WF_vars(TimerFires) /\ WF_vars(Renders)

\* Several sessions of one process, each started by running the module body.
InitSessions ==
    /\ deque_size = DEQUE_SIZE
    /\ update_interval = UPDATE_INTERVAL_SECS
    /\ session_state = [s \in Sessions |-> "none"]
    /\ tick_budget = MaxSessionTicks
    /\ InitCommon

NextSessions ==
    \/ \E s \in Sessions : session_start(s)
    \/ Next

SpecSessions == InitSessions /\ [][NextSessions]_vars

\* The module body run with the two constants set to other values.
InitConfig ==
    /\ deque_size \in ConfigSizes
    /\ update_interval \in ConfigIntervals
    /\ session_state = [s \in Sessions |-> "none"]
    /\ tick_budget = MaxConfigTicks
    /\ InitCommon

SpecConfig == InitConfig /\ [][NextSessions]_vars

\* ------------------------------------------------------------------ claims

Running == {s \in Sessions : session_state[s] = "running"}
Buffer(s) == deques[reactive_value_wrapper[s]]

\* C1: the history buffer never holds more than DEQUE_SIZE readings, and after m
\* appends it holds exactly the last min(m, DEQUE_SIZE) readings appended, in append
\* order (the oldest is the one evicted).
C1_BoundedFifo ==
    \A s \in Running :
        /\ Len(Buffer(s)) <= DEQUE_SIZE
        /\ Len(Buffer(s)) = Min(Len(appended[s]), DEQUE_SIZE)
        /\ Buffer(s) = LastN(appended[s], DEQUE_SIZE)

\* C1 witness: more readings were appended than the buffer holds, so one was evicted.
C1_Evicted ==
    /\ Len(appended["s1"]) > DEQUE_SIZE
    /\ Len(Buffer("s1")) = DEQUE_SIZE

\* C2: a call of the calc with no timer firing since its last run returns the cached
\* tuple, draws no reading and leaves the buffer alone; the number of appends is the
\* number of runs of the calc body, whatever the number of calls.
C2_Memoized ==
    /\ [](\A s \in Sessions : Len(appended[s]) = calc[s].runs)
    /\ [][\A s \in Sessions :
            (calc[s].valid /\ ticks'[s] = ticks[s]) =>
                /\ deques' = deques
                /\ appended'[s] = appended[s]
                /\ calc'[s].runs = calc[s].runs
                /\ Returned(calc'[s].value) = Returned(calc[s].value)
                /\ (last_return' # last_return /\ last_return'.session = s)
                      => last_return'.value = Returned(calc[s].value)]_vars

\* C2 witness: a render function was answered from the memo, after an earlier call
\* had run the body.
C2_ServedFromMemo ==
    /\ last_return # None
    /\ ~last_return.ran
    /\ calc[last_return.session].runs >= 1

\* C3: the three views of the cached tuple come from one buffer state: the frame has
\* one row per buffer entry, in buffer order, latest is the buffer's tail, frame and
\* latest were made by the same run; after one run the frame has one row; and every
\* render function is handed that tuple.
C3_ViewsFromOneState ==
    /\ \A s \in Running :
        calc[s].runs > 0 =>
            LET v  == calc[s].value
                dq == deques[v.deque_snapshot]
            IN  /\ Len(v.df) = Len(dq)
                /\ \A i \in 1..Len(dq) :
                      /\ v.df[i].temperature = dq[i].temperature
                      /\ v.df[i].humidity = dq[i].humidity
                      /\ v.df[i].timestamp.secs = dq[i].timestamp.secs
                /\ v.latest = dq[Len(dq)]
                /\ v.df_id = calc[s].runs
                /\ v.latest = appended[s][calc[s].runs]
                /\ calc[s].runs = 1 => (Len(v.df) = 1 /\ v.latest = dq[1])
    /\ last_return # None =>
            last_return.value = Returned(calc[last_return.session].value)

\* C3 witness: the data table was rendered after exactly one run of the calc.
C3_AfterOneTick ==
    /\ last_return # None
    /\ calc["s1"].runs = 1
    /\ Len(calc["s1"].value.df) = 1

\* C4: the buffer view of a tuple that was handed out keeps the contents it had when
\* it was handed out, whatever is appended later.
C4_SnapshotNotAliased ==
    held # None => deques[held.value.deque_snapshot] = held.contents

C8_SessionsIsolated ==
    /\ [](\A s \in Running, r \in Running :
            s # r => reactive_value_wrapper[s] # reactive_value_wrapper[r])
    /\ [](\A s \in Running :
            /\ Buffer(s) = LastN(appended[s], DEQUE_SIZE)
            /\ calc[s].runs > 0 => calc[s].value.deque_snapshot = reactive_value_wrapper[s])
    /\ [][\A s \in Running, r \in Running :
            (s # r /\ appended'[s] # appended[s]) =>
                /\ Buffer(r)' = Buffer(r)
                /\ calc'[r] = calc[r]
                /\ appended'[r] = appended[r]
                /\ timer'[r] = timer[r]]_vars

\* C8 witness: two sessions run, each has appended readings of its own.
C8_TwoSessionsAppended ==
    /\ Running = Sessions
    /\ Len(appended["s1"]) >= 2
    /\ Len(appended["s2"]) >= 2
    /\ Buffer("s1") # Buffer("s2")

\* C9: every timer tick is followed by exactly one run of the calc (one draw, one
\* append), each run re-arms the timer, and with the timer and the outputs scheduled
\* fairly a reading is appended after every tick and the ticks keep coming.
C9_OneRefreshPerTick ==
    /\ [](\A s \in Running :
            /\ calc[s].runs > 0 =>
                  calc[s].runs = ticks[s] + (IF calc[s].valid THEN 1 ELSE 0)
            /\ Len(appended[s]) = calc[s].runs
            /\ calc[s].valid <=> timer[s].armed)
    /\ (~calc["s1"].valid) ~> (calc["s1"].valid /\ Len(appended["s1"]) = ticks["s1"] + 1)
    /\ <>(ticks["s1"] = MaxFairTicks)

\* C9 witness: every tick of the run was followed by its refresh.
C9_AllTicksRefreshed ==
    /\ ticks["s1"] = MaxFairTicks
    /\ Len(appended["s1"]) = MaxFairTicks + 1

\* C10: no render function changes the buffer or the cached tuple: the frame in the
\* memo keeps the cells the run of the calc gave it.
C10_ConsumersDoNotMutate ==
    \A s \in Running :
        calc[s].runs > 0 =>
            /\ calc[s].value.df = DataFrame(deques[calc[s].value.deque_snapshot])
            /\ Buffer(s) = LastN(appended[s], deque_size)

====
